---------------------------- MODULE Spec2Model ----------------------------
(***************************************************************************)
(* A model of stx::array_hash (src/src/array-hash.h): a hash table of     *)
(* SLOT_COUNT slots, each slot either NULL or a heap buffer of packed,     *)
(* length-prefixed, NUL-terminated strings closed by a zero length field.  *)
(*                                                                         *)
(* Memory is modelled at the byte level.  A C string argument is the       *)
(* sequence of its bytes before the terminator (values 1..255); the        *)
(* terminator is the byte read at index strlen.  32-bit ints are kept as   *)
(* pairs of 16-bit halves <<hi, lo>> so that every intermediate value of   *)
(* the hash stays inside the range of the model checker's integers.        *)
(***************************************************************************)
EXTENDS Integers, Sequences, FiniteSets, TLC

\* enum { SLOT_COUNT = 2048 }
SLOT_COUNT == 2048

\* default argument "int seed = 23" of array_hash::hash
DEFAULT_SEED == 23

\* sizeof(length_type), length_type being int16_t
LENGTH_SIZE == 2

\* the null pointer
NULL == 0

\* the largest value of length_type (int16_t)
MAX_LENGTH == 32767

\* the content of a byte of a new char[] that nothing has written yet
UNINIT == -1

-----------------------------------------------------------------------------
(* Machine arithmetic *)

\* 2^16: the number of values of length_type (int16_t) and of a half word
W16 == 65536

\* conversion of an integer to int16_t (two's complement wrap)
ToInt16(x) ==
    LET m == x % W16
    IN  IF m >= 32768 THEN m - W16 ELSE m

\* the two bytes memcpy(p, &length, sizeof(length_type)) writes (little endian)
EncodeLength(w) ==
    LET m == w % W16
    IN  <<m % 256, m \div 256>>

\* *((length_type *)p): the int16_t held in two consecutive bytes
DecodeLength(b0, b1) == ToInt16(b0 + 256 * b1)

\* str[i] as an int, for a char (signed, 8 bit) holding byte b
CharValue(b) == IF b >= 128 THEN b - 256 ELSE b

\* a ^ b on four-bit values, tabulated
Xor4 ==
    [a \in 0..15 |-> [b \in 0..15 |->
        ((a + b) % 2)
        + 2 * (((a \div 2) + (b \div 2)) % 2)
        + 4 * (((a \div 4) + (b \div 4)) % 2)
        + 8 * (((a \div 8) + (b \div 8)) % 2)]]

\* a & b on four-bit values, tabulated
And4 ==
    [a \in 0..15 |-> [b \in 0..15 |->
        ((a % 2) * (b % 2))
        + 2 * (((a \div 2) % 2) * ((b \div 2) % 2))
        + 4 * (((a \div 4) % 2) * ((b \div 4) % 2))
        + 8 * (((a \div 8) % 2) * ((b \div 8) % 2))]]

\* a ^ b on 16-bit values, nibble by nibble
Xor16(a, b) ==
    Xor4[a % 16][b % 16]
    + 16 * Xor4[(a \div 16) % 16][(b \div 16) % 16]
    + 256 * Xor4[(a \div 256) % 16][(b \div 256) % 16]
    + 4096 * Xor4[a \div 4096][b \div 4096]

\* a & b on 16-bit values, nibble by nibble
And16(a, b) ==
    And4[a % 16][b % 16]
    + 16 * And4[(a \div 16) % 16][(b \div 16) % 16]
    + 256 * And4[(a \div 256) % 16][(b \div 256) % 16]
    + 4096 * And4[a \div 4096][b \div 4096]

\* a 32-bit int as <<hi, lo>>, both halves in 0..65535 (two's complement)
Int32(x) ==
    IF x >= 0 THEN <<x \div W16, x % W16>>
    ELSE <<W16 - 1 - ((-x - 1) \div W16), W16 - 1 - ((-x - 1) % W16)>>

\* a + b on 32-bit ints, wrapping
Add32(a, b) ==
    LET lo == a[2] + b[2]
    IN  <<(a[1] + b[1] + lo \div W16) % W16, lo % W16>>

\* h << 5
Shl5(h) == <<(h[1] * 32 + h[2] \div 2048) % W16, (h[2] * 32) % W16>>

\* h >> 2 on a signed int (arithmetic shift: the sign bit is copied in)
Sar2(h) ==
    <<(h[1] \div 4) + (IF h[1] >= 32768 THEN 49152 ELSE 0),
      (h[2] \div 4) + (h[1] % 4) * 16384>>

\* a ^ b on 32-bit ints
Xor32(a, b) == <<Xor16(a[1], b[1]), Xor16(a[2], b[2])>>

\* h % (m + 1) as C computes it: the remainder has the sign of h
AndMaskRemainder(h, m) ==
    LET v == IF h[1] >= 32768 THEN (h[1] - W16) * W16 + h[2]
             ELSE h[1] * W16 + h[2]
    IN  IF v < 0 THEN -((-(v + m + 1)) % (m + 1)) ELSE v % (m + 1)

\* h & m for a mask 0 <= m < 2^16: a non-negative int below 2^16
AndMask(h, m) == And16(h[2], m)

-----------------------------------------------------------------------------
(* C strings *)

\* str[i], i counted from 0: the bytes of the string, then its terminator
CharAt(str, i) == IF i < Len(str) THEN str[i + 1] ELSE 0

\* strlen(str)
strlen(str) == Len(str)

-----------------------------------------------------------------------------
(* array_hash::hash *)

\* one iteration of the loop: h = h ^ ((h << 5) + (h >> 2) + str[i])
HashStep(h, c) ==
    Xor32(h, Add32(Add32(Shl5(h), Sar2(h)), Int32(CharValue(c))))

\* the loop over i = lo .. hi - 1.  The range is halved and h is evaluated
\* on entry, which keeps the evaluation depth logarithmic in the length; the
\* steps are applied in the order of the loop.
RECURSIVE HashLoop(_, _, _, _)
HashLoop(h, str, lo, hi) ==
    IF lo >= hi \/ h[1] < 0 THEN h
    ELSE IF hi = lo + 1 THEN HashStep(h, CharAt(str, lo))
    ELSE LET mid == (lo + hi) \div 2
         IN  HashLoop(HashLoop(h, str, lo, mid), str, mid, hi)

hash(str, length, seed) ==
    AndMask(HashLoop(Int32(seed), str, 0, length), SLOT_COUNT - 1)

-----------------------------------------------------------------------------
(* Inputs of the driver: the words it reads and hands to the table *)

\* how many of the Words the driver may read
NumStrings == 4

\* "", "bs", "sw", "gn", "ba", "duq", "bkt", "a": hash puts "", "bs" and
\* "duq" in slot 23, "sw" and "ba" in slot 101, "gn" in the last slot (2047),
\* "bkt" in slot 0 and "a" in slot 849
Words ==
    << <<>>, <<98, 115>>, <<115, 119>>, <<103, 110>>,
       <<98, 97>>, <<100, 117, 113>>, <<98, 107, 116>>, <<97>> >>

Strings == {Words[i] : i \in 1..NumStrings}

Twice(s) == s \o s

Block1024(b) ==
    Twice(Twice(Twice(Twice(Twice(Twice(Twice(Twice(Twice(Twice(<<b>>))))))))))

\* 65536 bytes of value b
Block(b) == Twice(Twice(Twice(Twice(Twice(Twice(Block1024(b)))))))

\* the longest string whose length with the terminator fits length_type,
\* and the string one byte longer (both made of the letter a)
MaxString == SubSeq(Block(97), 1, MAX_LENGTH - 1)

OverString == SubSeq(Block(97), 1, MAX_LENGTH)

\* the words of the runs that exercise the bounds of length_type
LongStrings == {Words[i] : i \in 1..(NumStrings - 1)} \cup {MaxString, OverString}

-----------------------------------------------------------------------------
(* State *)

VARIABLES
    data,       \* char **data: the slot array, slot index -> pointer (NULL or a buffer)
    heap,       \* the new char[] buffers: address -> [live, bytes]
    _size,      \* size_t _size
    it,         \* the driver's iterator: [slot, p, data], p a <<buffer, offset>>
    yielded,    \* the strings *it gave since begin(), in order
    inserted,   \* the driver's reference set<string> s
    log,        \* the words in the order in which insert first stored them
    last,       \* the most recent call and how it ended
    first,      \* what a first table showed, and the calls a second one is to repeat
    hashOf      \* hash(str, strlen(str)) of every word, tabulated when the run starts

vars == <<data, heap, _size, it, yielded, inserted, log, last, first, hashOf>>

\* the address of the slot array (new char *[SLOT_COUNT])
ARRAY == 1

\* a char *: <<buffer address, offset>>; the null pointer
NullPtr == <<NULL, 0>>

\* a pointer value read from memory the program does not own
WILD == <<UNINIT, 0>>

-----------------------------------------------------------------------------
(* Memory *)

\* the bytes of the live buffer at address a
Mem(a) == heap[a].bytes

\* *((length_type *)p) at offset off of buffer content mem
ReadLength(mem, off) == DecodeLength(mem[off + 1], mem[off + 2])

\* memcpy / strcpy of bytes to offset off of mem
MemWrite(mem, off, bytes) ==
    SubSeq(mem, 1, off) \o bytes \o SubSeq(mem, off + Len(bytes) + 1, Len(mem))

\* 65536 bytes nothing has written
UninitBlock == Block(UNINIT)

\* new char[n]: n bytes nothing has written
NewChars(n) == SubSeq(UninitBlock, 1, n)

\* a search that compares the lengths only
StrEqualLengthOnly(str, mem, off) == TRUE

\* a search that takes strcmp(str, p) != 0 for a match
StrEqualInverted(str, mem, off) ==
    LET n == strlen(str)
    IN  \/ \E i \in 1..n : mem[off + i] # str[i]
        \/ mem[off + n + 1] # 0

\* strcmp(str, p) == 0, p at offset off of mem: the bytes agree up to and
\* including the terminator of str
StrEqual(str, mem, off) ==
    LET n == strlen(str)
    IN  /\ \A i \in 1..n : mem[off + i] = str[i]
        /\ mem[off + n + 1] = 0

\* the C string at offset off of mem: the bytes before the first 0
CString(mem, off) ==
    LET zeros == {i \in (off + 1)..Len(mem) : mem[i] = 0}
        z == CHOOSE i \in zeros : \A j \in zeros : i <= j
    IN  SubSeq(mem, off + 1, z - 1)

\* hash(str, length) with the default seed, read from the table of the
\* words' hashes when the call is one the table holds
HashCall(str, length) ==
    IF length = strlen(str) /\ str \in DOMAIN hashOf
    THEN hashOf[str]
    ELSE hash(str, length, DEFAULT_SEED)

-----------------------------------------------------------------------------
(* array_hash::search *)

\* a search that compares str with the last record of the slot only
RECURSIVE SearchLoopLastOnly(_, _, _, _, _)
SearchLoopLastOnly(str, length, mem, off, size) ==
    LET w    == ReadLength(mem, off)
        next == ReadLength(mem, off + LENGTH_SIZE + w)
    IN  IF w = 0 THEN size
        ELSE IF next = 0 /\ w = length /\ StrEqual(str, mem, off + LENGTH_SIZE)
        THEN 0
        ELSE SearchLoopLastOnly(str, length, mem, off + LENGTH_SIZE + w,
                                size + w + LENGTH_SIZE)

\* a search whose size leaves out the length fields
RECURSIVE SearchLoopBytesOnly(_, _, _, _, _)
SearchLoopBytesOnly(str, length, mem, off, size) ==
    LET w == ReadLength(mem, off)
    IN  IF w = 0 THEN size
        ELSE IF w = length /\ StrEqual(str, mem, off + LENGTH_SIZE) THEN 0
        ELSE SearchLoopBytesOnly(str, length, mem, off + LENGTH_SIZE + w,
                                 size + w)

\* the while loop: p at offset off of mem, size the bytes passed so far
RECURSIVE SearchLoop(_, _, _, _, _)
SearchLoop(str, length, mem, off, size) ==
    LET w == ReadLength(mem, off)
    IN  IF w = 0 THEN size
        ELSE IF w = length /\ StrEqual(str, mem, off + LENGTH_SIZE) THEN 0
        ELSE SearchLoop(str, length, mem, off + LENGTH_SIZE + w,
                        size + w + LENGTH_SIZE)

\* a search that hashes the terminator with the string
SearchSlotWithTerminator(str, length) == HashCall(str, length)

\* hash(str, length - 1) in search: the terminator is not hashed
SearchSlot(str, length) == HashCall(str, ToInt16(length - 1))

search(str, length, p) ==
    IF p = NULL
    THEN LET q == data[SearchSlot(str, length)]
         IN  IF q = NULL THEN -1 ELSE SearchLoop(str, length, Mem(q), 0, 0)
    ELSE SearchLoop(str, length, Mem(p), 0, 0)

\* a length without the ++length that makes room for the terminator
StoredLengthNoTerminator(str, length) ==
    ToInt16(IF length = 0 THEN ToInt16(strlen(str)) ELSE length)

\* the length the callers pass on: strlen when the argument is 0, plus one
\* for the terminator, held in a length_type
StoredLength(str, length) ==
    ToInt16((IF length = 0 THEN ToInt16(strlen(str)) ELSE length) + 1)

-----------------------------------------------------------------------------
(* array_hash::find, array_hash::size *)

find(str, length) == search(str, StoredLength(str, length), NULL) = 0

size == _size

-----------------------------------------------------------------------------
(* array_hash::array_hash *)

\* the slot array after the constructor's loop
EmptySlots == [i \in 0..(SLOT_COUNT - 1) |-> NULL]

\* the iterator the default constructor makes
DefaultIterator == [slot |-> 0, p |-> NullPtr, data |-> NULL]

NoCall == [op |-> "none", str |-> <<>>, out |-> "done"]

\* the record of a first table while there is only one table
NoFirst ==
    [built |-> FALSE, calls |-> <<>>, size |-> 0, slots |-> <<>>,
     order |-> <<>>, found |-> {}]

\* a constructor without its _size = 0
ConstructedSizeStale(garbage) == garbage

\* _size after the constructor ran on an object whose memory held garbage
ConstructedSize(garbage) == 0

InitWith(words) ==
    /\ data = EmptySlots
    /\ heap = <<>>
    /\ _size = ConstructedSize(0)
    /\ it = DefaultIterator
    /\ yielded = <<>>
    /\ inserted = {}
    /\ log = <<>>
    /\ last = NoCall
    /\ first = NoFirst
    /\ hashOf = [s \in words |-> hash(s, strlen(s), DEFAULT_SEED)]

Init == InitWith(Strings)

-----------------------------------------------------------------------------
(* array_hash::insert *)

\* an insert that counts the word before it looks for it
OnDuplicateCounted(p) == [data |-> data, heap |-> heap, size |-> _size + 1]

\* an insert that moves the slot to a new buffer when it finds the word
OnDuplicateReallocated(p) ==
    [data |-> [t \in DOMAIN data |-> IF data[t] = p THEN Len(heap) + 1 ELSE data[t]],
     heap |-> Append([heap EXCEPT ![p] = [live |-> FALSE, bytes |-> <<>>]],
                     [live |-> TRUE, bytes |-> Mem(p)]),
     size |-> _size]

\* the table when search finds the word: insert returns at once
OnDuplicate(p) == [data |-> data, heap |-> heap, size |-> _size]

\* an insert that releases the old buffer before it allocates the new one
OnBadAllocReleased(p) ==
    [data |-> data,
     heap |-> IF p # NULL
              THEN [heap EXCEPT ![p] = [live |-> FALSE, bytes |-> <<>>]]
              ELSE heap,
     size |-> _size]

\* the table when new char[] throws: the assignment to data[slot] and the
\* delete [] p that follow it are not reached
OnBadAlloc(p) == [data |-> data, heap |-> heap, size |-> _size]

\* an insert that takes every slot for an empty one
KeptSizeNone(p, found) == 0

\* the bytes of old content insert copies to the new buffer, and the offset
\* at which it writes the new record (p = data[slot] + size): the size search
\* returned, or nothing when the slot was empty
KeptSize(p, found) == IF p # NULL THEN found ELSE 0

\* int slot = hash(str, length - 1) in insert, length counting the terminator
InsertSlot(str, length) == HashCall(str, ToInt16(length - 1))

\* an insert that leaves the two bytes behind the new record as they are
WriteSentinelOmitted(mem, off) == mem

\* length = 0; memcpy(p, &length, sizeof(length_type)): the zero length field
\* that closes the slot
WriteSentinel(mem, off) == MemWrite(mem, off, EncodeLength(0))

\* the table as insert(str, length) leaves it, and how the call ends:
\* "done" (it returned), "bad_alloc" (new threw), "undefined" (it wrote
\* outside the buffer it allocated).  nomem: the allocator has no memory left.
insert(str, lengthArg, nomem) ==
    LET length == StoredLength(str, lengthArg)
        slot   == InsertSlot(str, length)
        p      == data[slot]
        found  == IF p # NULL THEN search(str, length, p) ELSE -1
        \* the bytes of the old content that are kept
        kept   == KeptSize(p, found)
        \* the operand of new char[]: size + 2 * sizeof(length_type) + length,
        \* or length + 2 * sizeof(length_type) for an empty slot.  A negative
        \* value is, as a size_t, larger than any object.
        n      == kept + 2 * LENGTH_SIZE + length
        same   == OnDuplicate(p)
        thrown == OnBadAlloc(p)
        a      == Len(heap) + 1
        \* memcpy of the old content, the length, strcpy, the sentinel
        m1     == IF p # NULL
                  THEN MemWrite(NewChars(n), 0, SubSeq(Mem(p), 1, kept))
                  ELSE NewChars(n)
        m2     == MemWrite(m1, kept, EncodeLength(length))
        m3     == MemWrite(m2, kept + LENGTH_SIZE, str \o <<0>>)
        m4     == WriteSentinel(m3, kept + LENGTH_SIZE + length)
        inside == /\ kept <= n
                  /\ kept + LENGTH_SIZE + strlen(str) + 1 <= n
                  /\ kept + LENGTH_SIZE + length >= 0
                  /\ kept + 2 * LENGTH_SIZE + length <= n
        freed  == IF p # NULL
                  THEN [heap EXCEPT ![p] = [live |-> FALSE, bytes |-> <<>>]]
                  ELSE heap
    IN  IF p # NULL /\ found = 0 THEN same @@ [out |-> "done"]
        ELSE IF n < 0 \/ nomem THEN thrown @@ [out |-> "bad_alloc"]
        ELSE IF ~inside THEN thrown @@ [out |-> "undefined"]
        ELSE [data |-> [data EXCEPT ![slot] = a],
              heap |-> Append(freed, [live |-> TRUE, bytes |-> m4]),
              size |-> _size + 1,
              out  |-> "done"]

\* the program runs on after a call unless the call's behaviour was undefined
Running == last.out \in {"done", "bad_alloc"}

\* ah.insert(word, length); s.insert(word)
InsertEffect(str, lengthArg, nomem) ==
    LET r == insert(str, lengthArg, nomem)
    IN  /\ Running
        /\ data' = r.data
        /\ heap' = r.heap
        /\ _size' = r.size
        /\ inserted' = IF r.out = "done" THEN inserted \cup {str} ELSE inserted
        /\ log' = IF r.out = "done" /\ str \notin inserted
                  THEN Append(log, str) ELSE log
        /\ last' = [op |-> "insert", str |-> str, out |-> r.out]
        /\ UNCHANGED <<it, yielded, hashOf>>

\* the driver's loop body: it inserts while no traversal is under way
InsertCall(str, lengthArg, nomem) ==
    /\ it = DefaultIterator
    /\ InsertEffect(str, lengthArg, nomem)

\* the length argument is left out (0) or is the length of the word
Insert ==
    /\ \E str \in DOMAIN hashOf :
          \E lengthArg \in {0, ToInt16(strlen(str))} :
              InsertCall(str, lengthArg, FALSE)
    /\ UNCHANGED first

\* an insert during which the allocator has no memory left
InsertNoMemory ==
    /\ \E str \in DOMAIN hashOf :
          \E lengthArg \in {0, ToInt16(strlen(str))} :
              InsertCall(str, lengthArg, TRUE)
    /\ UNCHANGED first

-----------------------------------------------------------------------------
(* array_hash::begin, array_hash::end, array_hash::iterator *)

\* how far past the slot array a read may run before it finds a word that is
\* not zero
MaxOverrun == 1

Min(S) == CHOOSE x \in S : \A y \in S : x <= y

\* data[i] as the iterator reads it; g is what lies behind the slot array
SlotRead(i, g) == IF i \in DOMAIN data THEN data[i] ELSE g

end == [slot |-> SLOT_COUNT, p |-> NullPtr, data |-> ARRAY]

\* iterator::operator==
IterEqual(a, b) == a.data = b.data /\ a.slot = b.slot /\ a.p = b.p

\* the ways begin() may end: the iterator it returns, or a crash.  Its loop
\*     while (result.data[result.slot] == NULL) ++result.slot;
\* has no bound on slot: with every slot NULL it reads behind the array until
\* it finds a word that is not zero, or leaves the memory of the process.
begin ==
    LET used == {t \in 0..(SLOT_COUNT - 1) : data[t] # NULL}
    IN  IF used # {}
        THEN {[out |-> "done",
               it  |-> [slot |-> Min(used), p |-> <<data[Min(used)], 0>>,
                        data |-> ARRAY]]}
        ELSE {[out |-> "done", it |-> [slot |-> k, p |-> WILD, data |-> ARRAY]] :
                 k \in SLOT_COUNT..(SLOT_COUNT + MaxOverrun)}
             \cup {[out |-> "crashed", it |-> DefaultIterator]}

\* the slot at which the loop of operator++
\*     while (data[slot] == NULL && slot < SLOT_COUNT) ++slot;
\* stops when it starts at slot start
ScanStop(start, g) ==
    Min({t \in start..SLOT_COUNT : ~(SlotRead(t, g) = NULL /\ t < SLOT_COUNT)})

\* an operator++ that leaves the slot after its first record
IncrementSkipsRest(c, g) ==
    LET slot == ScanStop(c.slot + 1, g)
    IN  IF slot = SLOT_COUNT
        THEN [c EXCEPT !.slot = slot, !.p = NullPtr]
        ELSE [c EXCEPT !.slot = slot, !.p = <<data[slot], 0>>]

\* an operator++ without the ++slot before its loop
IncrementSameSlot(c, g) ==
    LET mem  == Mem(c.p[1])
        off  == c.p[2] + ReadLength(mem, c.p[2]) + LENGTH_SIZE
        slot == ScanStop(c.slot, g)
    IN  IF ReadLength(mem, off) # 0
        THEN [c EXCEPT !.p = <<c.p[1], off>>]
        ELSE IF slot = SLOT_COUNT
        THEN [c EXCEPT !.slot = slot, !.p = NullPtr]
        ELSE [c EXCEPT !.slot = slot, !.p = <<data[slot], 0>>]

\* iterator::operator++ on an iterator whose p points into a live buffer
Increment(c, g) ==
    LET mem  == Mem(c.p[1])
        off  == c.p[2] + ReadLength(mem, c.p[2]) + LENGTH_SIZE
        slot == ScanStop(c.slot + 1, g)
    IN  IF ReadLength(mem, off) # 0
        THEN [c EXCEPT !.p = <<c.p[1], off>>]
        ELSE IF slot = SLOT_COUNT
        THEN [c EXCEPT !.slot = slot, !.p = NullPtr]
        ELSE [c EXCEPT !.slot = slot, !.p = <<data[slot], 0>>]

\* iterator::operator*: NULL, or the pointer past the length field
Dereference(c) ==
    IF c.p # NullPtr THEN <<c.p[1], c.p[2] + LENGTH_SIZE>> ELSE NullPtr

\* the string the driver prints from a pointer operator* returned
Printed(q) == CString(Mem(q[1]), q[2])

\* print(): it = t.begin()
Begin ==
    /\ Running
    /\ it = DefaultIterator
    /\ \E b \in begin :
          /\ last' = [op |-> "begin", str |-> <<>>, out |-> b.out]
          /\ it' = b.it
    /\ yielded' = <<>>
    /\ UNCHANGED <<data, heap, _size, inserted, log, first, hashOf>>

\* print(): one turn of the loop, entered while it != t.end():
\* cout << *it; ++it
Advance ==
    /\ Running
    /\ it.data # NULL
    /\ ~IterEqual(it, end)
    /\ IF it.p = WILD
       THEN /\ last' = [op |-> "advance", str |-> <<>>, out |-> "undefined"]
            /\ UNCHANGED <<it, yielded>>
       ELSE /\ last' = [op |-> "advance", str |-> <<>>, out |-> "done"]
            /\ yielded' = Append(yielded, Printed(Dereference(it)))
            /\ \E g \in {NULL, ARRAY} : it' = Increment(it, g)
    /\ UNCHANGED <<data, heap, _size, inserted, log, first, hashOf>>

\* print() returns: its iterator is gone
Release ==
    /\ Running
    /\ it.data # NULL
    /\ it' = DefaultIterator
    /\ yielded' = <<>>
    /\ last' = [op |-> "release", str |-> <<>>, out |-> "done"]
    /\ UNCHANGED <<data, heap, _size, inserted, log, first, hashOf>>

-----------------------------------------------------------------------------
(* What the table holds, read off the slot buffers *)

\* the strings of the records that start at offset off of mem, in order
RECURSIVE Records(_, _)
Records(mem, off) ==
    LET w == ReadLength(mem, off)
    IN  IF w = 0 THEN <<>>
        ELSE <<SubSeq(mem, off + LENGTH_SIZE + 1, off + LENGTH_SIZE + w - 1)>>
             \o Records(mem, off + LENGTH_SIZE + w)

UsedSlots == {t \in 0..(SLOT_COUNT - 1) : data[t] # NULL}

StoredIn(t) == IF data[t] = NULL THEN <<>> ELSE Records(Mem(data[t]), 0)

RecordCount ==
    Cardinality(UNION {{<<t, k>> : k \in 1..Len(StoredIn(t))} : t \in UsedSlots})

Range(q) == {q[i] : i \in 1..Len(q)}

\* the position of word s in sequence q
IndexIn(q, s) == CHOOSE i \in 1..Len(q) : q[i] = s

\* the strings the driver looks up: all the words, read or not
Queries == Range(Words)

\* the lookups and the inserts of word s: the length left out, or given
LengthArgs(s) == {0, ToInt16(strlen(s))}

\* a traversal is under way and has not left the table's memory
Traversing == it.data # NULL /\ it.p # WILD /\ Running

-----------------------------------------------------------------------------
(* Properties *)

\* C1: find(s) is true exactly for the words an earlier insert was given,
\* whichever way the length is passed: the table answers as the reference set.
MembershipCorrect ==
    \A s \in Queries : \A n \in LengthArgs(s) : find(s, n) <=> s \in inserted

\* "sw" is stored and "ba", of the same length and slot, is not
MembershipWitness ==
    /\ Words[3] \in inserted
    /\ Words[5] \notin inserted
    /\ HashCall(Words[5], 2) = HashCall(Words[3], 2)
    /\ find(Words[3], 0)
    /\ ~find(Words[5], 0)
    /\ Cardinality(inserted) >= 3

\* C2: size() is the number of distinct words inserted and the number of
\* records in all slots, and it has been incremented once for every record
\* appended (every buffer allocated; none fails to be) and never otherwise.
CountAccurate ==
    /\ size = Cardinality(inserted)
    /\ size = RecordCount
    /\ size = Len(heap)

\* three words are stored, two of them in one slot
CountWitness ==
    /\ _size = 3
    /\ \E t \in UsedSlots : Len(StoredIn(t)) = 2

\* C3: an insert of a word that is already stored changes no slot, no buffer
\* and not the count, and find is true for the word before and after it.
DuplicateInsertNoOp ==
    /\ [][\A s \in inserted :
             (last'.op = "insert" /\ last'.str = s)
               => /\ data' = data
                  /\ heap' = heap
                  /\ _size' = _size
                  /\ \A n \in LengthArgs(s) : find(s, n)]_vars
    /\ []((last.op = "insert" /\ last.out = "done")
             => \A n \in LengthArgs(last.str) : find(last.str, n))

\* the last call was an insert of a stored word that is not the last record
\* of the newest buffer: it appended nothing
DuplicateWitness ==
    /\ last.op = "insert"
    /\ last.str \in inserted
    /\ _size >= 2
    /\ LET recs == Records(Mem(Len(heap)), 0)
       IN  recs[Len(recs)] # last.str

\* C4: on a table that holds a word, the traversal from begin() is at end()
\* exactly after size() advances; before that the iterator is on a record; and
\* at end() the strings it gave are the inserted words, each once.
IterationComplete ==
    (Traversing /\ _size >= 1) =>
        /\ IterEqual(it, end) <=> Len(yielded) = _size
        /\ ~IterEqual(it, end) =>
              /\ it.p[1] \in 1..Len(heap)
              /\ heap[it.p[1]].live
              /\ ReadLength(Mem(it.p[1]), it.p[2]) # 0
              /\ Len(yielded) < _size
        /\ IterEqual(it, end) =>
              /\ Range(yielded) = inserted
              /\ Cardinality(Range(yielded)) = Len(yielded)

\* a traversal of three words in two slots or more has reached end()
IterationWitness ==
    /\ Traversing
    /\ IterEqual(it, end)
    /\ Len(yielded) = 3
    /\ Cardinality(UsedSlots) >= 2

\* C5: begin() on a table nothing was inserted into returns an iterator
\* equal to end().
BeginOnEmptyIsEnd ==
    (last.op = "begin" /\ inserted = {} /\ _size = 0)
        => (last.out = "done" /\ IterEqual(it, end))

\* C7: the strings come in ascending slot order, and those of one slot in
\* the order in which they were first inserted.
IterationOrder ==
    (Traversing /\ _size >= 1) =>
        \A i, j \in 1..Len(yielded) :
            i < j =>
                LET a == yielded[i]
                    b == yielded[j]
                IN  /\ a \in inserted
                    /\ b \in inserted
                    /\ \/ hashOf[a] < hashOf[b]
                       \/ /\ hashOf[a] = hashOf[b]
                          /\ IndexIn(log, a) < IndexIn(log, b)

\* a full traversal gave "bs" before "", which was inserted after it in the
\* same slot, and then a word of a higher slot
OrderWitness ==
    /\ Traversing
    /\ IterEqual(it, end)
    /\ Len(yielded) >= 3
    /\ yielded[1] = Words[2]
    /\ yielded[2] = Words[1]

\* the offsets of the records that start at offset off of mem, in order
RECURSIVE RecordOffsets(_, _)
RecordOffsets(mem, off) ==
    LET w == ReadLength(mem, off)
    IN  IF w = 0 THEN <<>>
        ELSE <<off>> \o RecordOffsets(mem, off + LENGTH_SIZE + w)

\* the empty string, and the slot it hashes to
EmptyString == <<>>

EmptySlot == hashOf[EmptyString]

\* the empty string is absent and not found, or it is one record of length 1
\* (a terminator and nothing else) of its slot, found, and the records behind
\* it in the slot are found too; a finished traversal gave it once, with the
\* records behind it
EmptyStringHeld ==
    /\ EmptyString \notin inserted => ~find(EmptyString, 0)
    /\ EmptyString \in inserted =>
          /\ find(EmptyString, 0)
          /\ data[EmptySlot] # NULL
          /\ LET mem  == Mem(data[EmptySlot])
                 offs == RecordOffsets(mem, 0)
                 recs == StoredIn(EmptySlot)
             IN  /\ Len(offs) = Len(recs)
                 /\ \E k \in 1..Len(offs) :
                       /\ ReadLength(mem, offs[k]) = 1
                       /\ mem[offs[k] + LENGTH_SIZE + 1] = 0
                       /\ recs[k] = EmptyString
                       /\ \A j \in 1..Len(recs) : j # k => recs[j] # EmptyString
                       /\ \A j \in (k + 1)..Len(recs) :
                             /\ recs[j] \in inserted
                             /\ find(recs[j], 0)
                             /\ (Traversing /\ IterEqual(it, end))
                                   => recs[j] \in Range(yielded)
    /\ (Traversing /\ IterEqual(it, end) /\ _size >= 1) =>
          Cardinality({i \in 1..Len(yielded) : yielded[i] = EmptyString})
              = (IF EmptyString \in inserted THEN 1 ELSE 0)

\* C10: the empty string is not found before it is inserted, whatever its
\* slot holds; the insert that stores it adds one to size(); from then on it
\* is a record of length 1 that find and a traversal reach, as they reach the
\* records appended behind it.
EmptyStringStorable ==
    /\ []EmptyStringHeld
    /\ [][(last'.op = "insert" /\ last'.str = EmptyString
             /\ EmptyString \notin inserted)
            => (EmptyString \in inserted' /\ _size' = _size + 1)]_vars

\* a finished traversal of a table whose slot of the empty string holds the
\* empty string and, behind it, "bs"
EmptyStringWitness ==
    /\ Traversing
    /\ IterEqual(it, end)
    /\ StoredIn(EmptySlot) = <<EmptyString, Words[2]>>
    /\ yielded[1] = EmptyString

-----------------------------------------------------------------------------
(* Runs in which the allocator may fail *)

NextAlloc == Insert \/ InsertNoMemory

SpecAlloc == Init /\ [][NextAlloc]_vars

\* C9: an insert whose new char[] throws leaves every slot, every buffer
\* (address, liveness, bytes) and the count as they were.
AllocFailureLeavesTable ==
    [][(last'.op = "insert" /\ last'.out = "bad_alloc")
         => /\ data' = data
            /\ heap' = heap
            /\ _size' = _size
            /\ inserted' = inserted]_vars

\* the allocation failed for a word that was to be appended to a slot that
\* holds records
AllocFailureWitness ==
    /\ last.op = "insert"
    /\ last.out = "bad_alloc"
    /\ last.str \notin inserted
    /\ data[hashOf[last.str]] # NULL
    /\ heap[data[hashOf[last.str]]].live
    /\ _size >= 2

-----------------------------------------------------------------------------
(* Runs with words at the bounds of length_type *)

InitLong == InitWith(LongStrings)

SpecLong == InitLong /\ [][Insert]_vars

\* how find(str, length) ends: it returns its bool, whatever the length
findEnds(str, length) == "done"

\* C6: the word whose length with the terminator is MAX_LENGTH is stored,
\* found and counted; an insert or a find of a longer word ends in a length
\* error and leaves the table as it was.
LengthOverflowRejected ==
    /\ (last.op = "insert" /\ strlen(last.str) + 1 = MAX_LENGTH)
          => /\ last.out = "done"
             /\ find(last.str, 0)
             /\ last.str \in inserted
             /\ _size = Cardinality(inserted)
    /\ [][\A s \in DOMAIN hashOf :
             (last'.op = "insert" /\ last'.str = s /\ strlen(s) + 1 > MAX_LENGTH)
               => /\ last'.out = "length_error"
                  /\ findEnds(s, 0) = "length_error"
                  /\ data' = data
                  /\ heap' = heap
                  /\ _size' = _size]_vars

\* the word of the greatest length is stored as a record whose length field
\* holds MAX_LENGTH, and is found and counted
MaxStringStored ==
    MaxString \in inserted
        => /\ find(MaxString, 0)
           /\ find(MaxString, ToInt16(strlen(MaxString)))
           /\ ReadLength(Mem(data[hashOf[MaxString]]), 0) = MAX_LENGTH
           /\ StoredIn(hashOf[MaxString]) = <<MaxString>>
           /\ _size = Cardinality(inserted)

\* a find of the word one byte longer returns false and an insert of it
\* ends in bad_alloc
OverStringOutcome ==
    /\ ~find(OverString, 0)
    /\ (last.op = "insert" /\ last.str = OverString) => last.out = "bad_alloc"

-----------------------------------------------------------------------------
(* Two tables given the same calls *)

\* how many insert calls the first table gets
MaxCalls == 3

\* the bytes of every slot that has a buffer
SlotContents == [t \in UsedSlots |-> Mem(data[t])]

\* the strings a traversal gives from iterator c on
RECURSIVE Walk(_)
Walk(c) ==
    IF IterEqual(c, end) THEN <<>>
    ELSE <<Printed(Dereference(c))>> \o Walk(Increment(c, NULL))

\* the strings of a whole traversal; on a table without a word begin() is
\* not called
TraversalOrder ==
    IF UsedSlots = {} THEN <<>>
    ELSE Walk((CHOOSE b \in begin : TRUE).it)

\* the words find is true for
FoundSet == {q \in Queries : find(q, 0)}

\* an insert into the first table, remembered for the second
InsertFirst ==
    /\ ~first.built
    /\ Len(first.calls) < MaxCalls
    /\ \E str \in DOMAIN hashOf :
          /\ InsertCall(str, 0, FALSE)
          /\ first' = [first EXCEPT !.calls = Append(@, str)]

\* what the first table shows is put aside and a second array_hash is
\* constructed; the buffers of the first stay allocated
SecondTable ==
    /\ Running
    /\ ~first.built
    /\ it = DefaultIterator
    /\ first' = [built |-> TRUE, calls |-> first.calls, size |-> size,
                 slots |-> SlotContents, order |-> TraversalOrder,
                 found |-> FoundSet]
    /\ data' = EmptySlots
    /\ _size' = ConstructedSize(_size)
    /\ inserted' = {}
    /\ log' = <<>>
    /\ last' = [op |-> "construct", str |-> <<>>, out |-> "done"]
    /\ UNCHANGED <<heap, it, yielded, hashOf>>

\* the next call of the first table is made on the second
InsertSecond ==
    /\ first.built
    /\ first.calls # <<>>
    /\ InsertCall(Head(first.calls), 0, FALSE)
    /\ first' = [first EXCEPT !.calls = Tail(@)]

NextTwice == InsertFirst \/ SecondTable \/ InsertSecond

SpecTwice == Init /\ [][NextTwice]_vars

\* C8: a second table given the calls of the first, in their order, has the
\* same bytes in every slot, gives the same strings in the same order, and
\* has the same size() and the same find results.
Deterministic ==
    (first.built /\ first.calls = <<>>) =>
        /\ SlotContents = first.slots
        /\ TraversalOrder = first.order
        /\ size = first.size
        /\ FoundSet = first.found

\* both tables got three calls and hold two words of one slot, in buffers
\* at different addresses
DeterministicWitness ==
    /\ first.built
    /\ first.calls = <<>>
    /\ first.size = 2
    /\ Len(first.order) = 2
    /\ \E t \in UsedSlots : Len(StoredIn(t)) = 2 /\ data[t] > 3
    /\ Len(heap) >= 4

-----------------------------------------------------------------------------
(* The layout of the slot buffers *)

\* mem holds, from offset off on and inside its bounds, records of a length
\* field w >= 1 and w written bytes of which the last is the terminator, and
\* behind the last record a zero length field
RECURSIVE WellFormedFrom(_, _)
WellFormedFrom(mem, off) ==
    IF off + LENGTH_SIZE > Len(mem) THEN FALSE
    ELSE LET w == ReadLength(mem, off)
         IN  IF w = 0 THEN TRUE
             ELSE /\ w >= 1
                  /\ off + LENGTH_SIZE + w <= Len(mem)
                  /\ \A i \in 1..w : mem[off + LENGTH_SIZE + i] \in 0..255
                  /\ mem[off + LENGTH_SIZE + w] = 0
                  /\ WellFormedFrom(mem, off + LENGTH_SIZE + w)

\* C11: every slot is NULL or points to a live buffer that starts with a
\* record (never with the zero length field) and holds well-formed records
\* closed by a zero length field.
SlotsWellFormed ==
    \A t \in DOMAIN data :
        \/ data[t] = NULL
        \/ /\ data[t] \in 1..Len(heap)
           /\ heap[data[t]].live
           /\ ReadLength(Mem(data[t]), 0) >= 1
           /\ WellFormedFrom(Mem(data[t]), 0)

\* one slot holds two records, the empty string among them, and another
\* slot holds one
SlotsWitness ==
    /\ StoredIn(EmptySlot) = <<Words[2], EmptyString>>
    /\ Cardinality(UsedSlots) >= 2
    /\ last.op = "insert"

-----------------------------------------------------------------------------
(* The slot of a string *)

\* C12: every record lies in the slot hash gives for its bytes without the
\* terminator, and find looks for a word in the slot insert puts it in,
\* whichever way the length is passed.
SlotAssignment ==
    /\ \A t \in UsedSlots :
          \A k \in 1..Len(StoredIn(t)) :
              LET s == StoredIn(t)[k]
              IN  hash(s, strlen(s), DEFAULT_SEED) = t
    /\ \A q \in Queries : \A n \in LengthArgs(q) : \A m \in LengthArgs(q) :
          LET t == SearchSlot(q, StoredLength(q, n))
          IN  /\ t = InsertSlot(q, StoredLength(q, m))
              /\ t \in 0..(SLOT_COUNT - 1)
              /\ q \in inserted => q \in Range(StoredIn(t))

\* the last slot holds "gn" and the slot of the empty string two records
SlotAssignmentWitness ==
    /\ StoredIn(SLOT_COUNT - 1) = <<Words[4]>>
    /\ Len(StoredIn(EmptySlot)) = 2
    /\ find(Words[4], 0)

-----------------------------------------------------------------------------
(* No string twice *)

\* the records of all slots as <<slot, position, string>>
AllRecords ==
    UNION {LET recs == StoredIn(t)
           IN  {<<t, k, recs[k]>> : k \in 1..Len(recs)} : t \in UsedSlots}

\* C13: no two records of a slot, and so no two records of the table, hold
\* the same string.
NoDuplicateRecords ==
    LET all == AllRecords
    IN  \A a \in all : \A b \in all :
            a[3] = b[3] => (a[1] = b[1] /\ a[2] = b[2])

\* the last call was an insert of a word stored as the first of the two
\* records of its slot: search went past no record to find it
NoDuplicateWitness ==
    /\ last.op = "insert"
    /\ last.out = "done"
    /\ Len(StoredIn(hashOf[last.str])) = 2
    /\ StoredIn(hashOf[last.str])[1] = last.str
    /\ Len(log) >= 2
    /\ log[Len(log)] # last.str
    /\ log[Len(log)] = StoredIn(hashOf[last.str])[2]

-----------------------------------------------------------------------------
(* What search returns *)

\* the bytes of the records of mem before the zero length field: for each
\* record its length field and the bytes the field counts
RECURSIVE ContentSize(_, _)
ContentSize(mem, off) ==
    LET w == ReadLength(mem, off)
    IN  IF w = 0 THEN 0
        ELSE LENGTH_SIZE + w + ContentSize(mem, off + LENGTH_SIZE + w)

\* mem holds a record whose length field is length and whose bytes are those
\* of str with its terminator
HoldsRecord(mem, str, length) ==
    LET offs == RecordOffsets(mem, 0)
    IN  \E k \in 1..Len(offs) :
           /\ ReadLength(mem, offs[k]) = length
           /\ SubSeq(mem, offs[k] + LENGTH_SIZE + 1, offs[k] + LENGTH_SIZE + length)
                 = str \o <<0>>

-----------------------------------------------------------------------------
(* What an append changes *)

\* the bytes of the records of slot t, without the zero length field
SlotContent(t) ==
    IF data[t] = NULL THEN <<>>
    ELSE SubSeq(Mem(data[t]), 1, ContentSize(Mem(data[t]), 0))

\* the bytes of the record insert writes for word s
RecordOf(s) == EncodeLength(strlen(s) + 1) \o s \o <<0>>

\* C15: an insert of a word that is not stored leaves every other slot and
\* every buffer of another slot as it was, gives the word's slot a buffer that
\* holds the slot's records as they were, then the record of the word, then a
\* zero length field, and adds one to the count.
AppendFrame ==
    [][\A s \in DOMAIN hashOf :
          (last'.op = "insert" /\ last'.str = s /\ last'.out = "done"
             /\ s \notin inserted)
            => LET t == hashOf[s]
               IN  /\ \A u \in DOMAIN data : u # t => data'[u] = data[u]
                   /\ \A a \in 1..Len(heap) : a # data[t] => heap'[a] = heap[a]
                   /\ data'[t] # NULL
                   /\ data'[t] # data[t]
                   /\ heap'[data'[t]].live
                   /\ heap'[data'[t]].bytes
                         = SlotContent(t) \o RecordOf(s) \o EncodeLength(0)
                   /\ _size' = _size + 1]_vars

\* the last insert appended the empty string to the slot that held "bs",
\* while another slot holds a word
AppendWitness ==
    /\ last.op = "insert"
    /\ last.str = EmptyString
    /\ log # <<>>
    /\ log[Len(log)] = EmptyString
    /\ StoredIn(EmptySlot) = <<Words[2], EmptyString>>
    /\ Cardinality(UsedSlots) >= 2

-----------------------------------------------------------------------------
(* The bounds of the slot buffers *)

\* a word of the greatest length that fits length_type, ending in "git":
\* hash puts it in the slot of OverString
NearString == SubSeq(Block(97), 1, MAX_LENGTH - 4) \o <<103, 105, 116>>

OverflowStrings ==
    {Words[i] : i \in 1..(NumStrings - 1)} \cup {NearString, OverString}

InitOverflow == InitWith(OverflowStrings)

SpecOverflow == InitOverflow /\ [][Insert]_vars

\* C16: an insert given the length of its word, or none, writes inside the
\* buffer it allocated, and the buffer of an append has the size of the old
\* records, plus a length field, the word and its terminator, plus a zero
\* length field.
WritesInBounds ==
    [][\A s \in DOMAIN hashOf :
          (last'.op = "insert" /\ last'.str = s)
            => /\ last'.out # "undefined"
               /\ (last'.out = "done" /\ s \notin inserted)
                     => Len(heap'[data'[hashOf[s]]].bytes)
                           = Len(SlotContent(hashOf[s]))
                             + (LENGTH_SIZE + strlen(s) + 1) + LENGTH_SIZE]_vars

\* the slot of OverString holds NearString, and the insert of OverString
\* allocated fewer bytes than it went on to copy
OverflowReached ==
    /\ last.op = "insert"
    /\ last.str = OverString
    /\ last.out = "undefined"
    /\ StoredIn(hashOf[OverString]) = <<NearString>>

-----------------------------------------------------------------------------
(* The entries of the slot array the iterator reads *)

\* the indices i for which operator++ on c evaluates data[i]: none while the
\* slot of c has a next record; else those from the next slot up to the one
\* at which its loop stops, data[slot] being read before slot < SLOT_COUNT is
\* tested
IncrementReads(c) ==
    LET mem == Mem(c.p[1])
        off == c.p[2] + ReadLength(mem, c.p[2]) + LENGTH_SIZE
    IN  IF ReadLength(mem, off) # 0 THEN {}
        ELSE (c.slot + 1)..ScanStop(c.slot + 1, NULL)

\* C17: an advance reads only entries 0 .. SLOT_COUNT - 1 of the slot array,
\* also when it leaves the last record of the last slot in use, and the
\* iterator is then at end().
SlotReadsInBounds ==
    [][(last'.op = "advance" /\ last'.out = "done")
         => /\ IncrementReads(it) \subseteq 0..(SLOT_COUNT - 1)
            /\ it'.slot = SLOT_COUNT => IterEqual(it', end)]_vars

\* an advance inside the slot array: the reads stay in the array and the
\* iterator is at end() when no slot in use is left
SlotReadsBeforeEnd ==
    [][(last'.op = "advance" /\ last'.out = "done")
         => /\ it'.slot < SLOT_COUNT
                  => IncrementReads(it) \subseteq 0..(SLOT_COUNT - 1)
            /\ it'.slot = SLOT_COUNT
                  => IterEqual(it', end) /\ SLOT_COUNT \in IncrementReads(it)]_vars

-----------------------------------------------------------------------------
(* array_hash::hash as a function of its arguments *)

\* the greatest length of the strings hash is applied to
HashLen == 7

\* the bytes the strings are made of: a letter and a byte with the high bit set
HashBytes == {97, 200}

RECURSIVE StringsOfLength(_)
StringsOfLength(n) ==
    IF n = 0 THEN {<<>>}
    ELSE {Append(s, b) : s \in StringsOfLength(n - 1), b \in HashBytes}

HashInputs == UNION {StringsOfLength(n) : n \in 0..HashLen}

\* the default seed, and a negative one
HashSeeds == {DEFAULT_SEED, -DEFAULT_SEED}

\* the value of the int kept as <<hi, lo>>
IntValue(h) ==
    IF h[1] >= 32768 THEN (h[1] - W16) * W16 + h[2] ELSE h[1] * W16 + h[2]

\* a call hash(str, strlen(str), seed) about to be made
InitHash ==
    /\ data = EmptySlots
    /\ heap = <<>>
    /\ _size = ConstructedSize(0)
    /\ it = DefaultIterator
    /\ yielded = <<>>
    /\ inserted = {}
    /\ log = <<>>
    /\ first = NoFirst
    /\ hashOf = <<>>
    /\ \E s \in HashInputs : \E sd \in HashSeeds :
          last = [op |-> "hash", str |-> s, seed |-> sd, out |-> "called"]

\* the call returns: its result is tabulated
HashReturn ==
    /\ last.op = "hash"
    /\ last.out = "called"
    /\ hashOf' = [s \in {last.str} |-> hash(s, strlen(s), last.seed)]
    /\ last' = [last EXCEPT !.out = "done"]
    /\ UNCHANGED <<data, heap, _size, it, yielded, inserted, log, first>>

SpecHash == InitHash /\ [][HashReturn]_vars

\* C18: hash returns an index of the slot array, the value of h modulo
\* SLOT_COUNT, and the same index whatever bytes follow the length bytes of
\* the string.
HashInRange ==
    (last.op = "hash" /\ last.out = "done") =>
        LET s == last.str
            h == HashLoop(Int32(last.seed), s, 0, strlen(s))
        IN  /\ hashOf[s] \in 0..(SLOT_COUNT - 1)
            /\ hashOf[s] = IntValue(h) % SLOT_COUNT
            /\ \A b \in HashBytes \cup {0} :
                  hash(Append(s, b), strlen(s), last.seed) = hashOf[s]

\* hash returned for a string of seven bytes or more, one with the high bit
\* set, that left h negative
HashWitness ==
    /\ last.op = "hash"
    /\ last.out = "done"
    /\ strlen(last.str) >= 7
    /\ \E i \in 1..Len(last.str) : last.str[i] >= 128
    /\ IntValue(HashLoop(Int32(last.seed), last.str, 0, strlen(last.str))) < 0
    /\ last.seed = DEFAULT_SEED

-----------------------------------------------------------------------------
(* Inserts while an iterator is in use *)

\* the iterator stands on a record of the table, or did when it last moved
OnRecord == it.data # NULL /\ it.p # NullPtr /\ it.p # WILD

\* the buffer the iterator points into has been released
Dangling == OnRecord /\ ~heap[it.p[1]].live

\* an insert between begin() and the end of a traversal
InsertDuring ==
    /\ it.data # NULL
    /\ \E str \in DOMAIN hashOf : InsertEffect(str, 0, FALSE)
    /\ UNCHANGED first

\* cout << *it; ++it with an iterator an insert may have left dangling: the
\* reads through a pointer into a released buffer are undefined
AdvanceCursor ==
    IF Dangling
    THEN /\ Running
         /\ last' = [op |-> "advance", str |-> <<>>, out |-> "undefined"]
         /\ UNCHANGED <<data, heap, _size, it, yielded, inserted, log, first, hashOf>>
    ELSE Advance

NextCursor == Insert \/ InsertDuring \/ Begin \/ AdvanceCursor \/ Release

SpecCursor == Init /\ [][NextCursor]_vars

\* C19: an insert that finds its word, or appends to another slot than the
\* iterator's, leaves the iterator and the buffer it points into as they were,
\* and the next advance gives the record and moves on; an insert that appends
\* to the iterator's slot releases that buffer; an iterator dangles only after
\* such an insert, and only then is an advance undefined.
CursorValidity ==
    /\ [](OnRecord =>
             IF heap[it.p[1]].live
             THEN /\ it.p[1] = data[it.slot]
                  /\ ReadLength(Mem(it.p[1]), it.p[2]) >= 1
             ELSE /\ data[it.slot] > it.p[1]
                  /\ \E s \in inserted : hashOf[s] = it.slot)
    /\ []((last.op = "advance" /\ last.out = "undefined" /\ it.p # WILD)
             => Dangling)
    /\ [][(OnRecord /\ heap[it.p[1]].live /\ last'.op = "insert")
            => LET s   == last'.str
                   own == /\ s \notin inserted
                          /\ last'.out = "done"
                          /\ hashOf[s] = it.slot
               IN  /\ it' = it
                   /\ ~own => /\ heap'[it.p[1]] = heap[it.p[1]]
                              /\ data'[it.slot] = data[it.slot]
                   /\ own => ~heap'[it.p[1]].live]_vars
    /\ [][(OnRecord /\ heap[it.p[1]].live /\ last'.op = "advance")
            => /\ last'.out = "done"
               /\ yielded' = Append(yielded, Printed(Dereference(it)))
               /\ it' # it]_vars

\* the traversal has given one string and stands on the second record of
\* its slot; the last call appended "gn" to the last slot
CursorWitness ==
    /\ OnRecord
    /\ ~Dangling
    /\ Len(yielded) = 1
    /\ it.p[2] > 0
    /\ last.op = "insert"
    /\ last.str = Words[4]
    /\ log[Len(log)] = Words[4]
    /\ hashOf[Words[4]] > it.slot

\* an insert during the traversal appended to the iterator's slot
DanglingWitness ==
    /\ Dangling
    /\ last.op = "insert"
    /\ hashOf[last.str] = it.slot

-----------------------------------------------------------------------------
(* array_hash::~array_hash *)

\* the forms of new and delete: new T[n] with delete [] p, new T with delete p
ArrayForm == "array"

ScalarForm == "scalar"

\* data = new char *[SLOT_COUNT] and data[slot] = new char[...]
AllocatedWith == ArrayForm

\* delete [] p in insert
InsertReleasesWith == ArrayForm

\* delete data[i] and delete data in the destructor
DestructorReleasesWith == ScalarForm

\* how the destructor may end: a delete of the form the memory was allocated
\* with releases it; a delete of the other form is undefined, and the build
\* either releases the memory all the same or stops in the allocator
DestructorOutcomes ==
    IF DestructorReleasesWith = AllocatedWith
    THEN {"destroyed"}
    ELSE {"destroyed", "undefined"}

\* the table goes out of scope at the end of main
Destroy ==
    /\ Running
    /\ it = DefaultIterator
    /\ \E out \in DestructorOutcomes :
          /\ last' = [op |-> "destroy", str |-> <<>>, out |-> out]
          /\ heap' = IF out = "destroyed"
                     THEN [a \in 1..Len(heap) |-> [live |-> FALSE, bytes |-> <<>>]]
                     ELSE heap
    /\ UNCHANGED <<data, _size, it, yielded, inserted, log, first, hashOf>>

NextDestroy == Insert \/ Destroy

SpecDestroy == Init /\ [][NextDestroy]_vars

\* the buffers that are allocated and not released
LiveBuffers == {a \in 1..Len(heap) : heap[a].live}

\* while the table exists the live buffers are those the slots point to, one
\* for each slot in use
LiveBuffersReferenced ==
    Running =>
        /\ LiveBuffers = {data[t] : t \in UsedSlots}
        /\ Cardinality(LiveBuffers) = Cardinality(UsedSlots)

\* C20: the live buffers are those the slots point to; insert releases the
\* buffer it replaces with the form it was allocated with; and the destructor
\* releases the slot array and every live buffer with that form, after which
\* no buffer is live.
ReleaseMatchesAllocation ==
    /\ LiveBuffersReferenced
    /\ InsertReleasesWith = AllocatedWith
    /\ last.op = "destroy" =>
          /\ DestructorReleasesWith = AllocatedWith
          /\ last.out = "destroyed"
          /\ LiveBuffers = {}

-----------------------------------------------------------------------------

Next == Insert \/ Begin \/ Advance \/ Release

Spec == Init /\ [][Next]_vars

=============================================================================
